---- MODULE Spec2Model ----
(***************************************************************************)
(* Model of gnre_automacao/gnre_xml.py: the GNRE need/value evaluator      *)
(* (evaluate_gnre_need), the submission-lot builder (build_lote_xml) and   *)
(* their helpers (_digits, _dec, _date_only, _require, _mun5).             *)
(*                                                                         *)
(* Python strings are sequences of characters; a character is a TLA+       *)
(* string naming it ("sup2" is U+00B2, a non-ASCII character for which     *)
(* str.isdigit() is true).  Python's None is the distinguished value None, *)
(* which is not a sequence of characters.  A Decimal is an integer number  *)
(* of 10^-FracDigits units.                                                *)
(***************************************************************************)
EXTENDS Integers, Sequences, FiniteSets, TLC

\* ------------------------------------------------------------------ bounds
FracDigits == 3      \* fraction digits carried by a Decimal of the model
MaxDay == 2          \* days the clock can reach

\* ------------------------------------------------------- program constants
ReceitaLen == 6      \* len(receita) == 6
ChaveMaxLen == 44    \* 1 <= len(chave) <= 44
MunLen == 5          \* len(s) == 5 in _mun5
MunIbgeLen == 7      \* len(s) == 7 in _mun5

\* --------------------------------------------------------- Python strings
None == <<"None">>

AsciiDigits == {"0", "1", "2", "3", "4", "5", "6", "7", "8", "9"}
\* characters c with c.isdigit()
DigitChars == AsciiDigits \cup {"sup2"}
\* characters c with c.isspace()
SpaceChars == {" "}

\* bool(s) for an Optional[str]
Truthy(s) == s # None /\ s # <<>>

\* a or b
Or(a, b) == IF Truthy(a) THEN a ELSE b

\* s.isdigit()
isdigit(s) == Len(s) > 0 /\ \A i \in 1..Len(s) : s[i] \in DigitChars

\* s.strip()
RECURSIVE lstrip(_)
lstrip(s) == IF s # <<>> /\ Head(s) \in SpaceChars THEN lstrip(Tail(s)) ELSE s
RECURSIVE rstrip(_)
rstrip(s) ==
  IF s # <<>> /\ s[Len(s)] \in SpaceChars THEN rstrip(SubSeq(s, 1, Len(s) - 1)) ELSE s
strip(s) == rstrip(lstrip(s))

\* s.upper()
UpperChar(c) ==
  CASE c = "s" -> "S" [] c = "p" -> "P" [] c = "e" -> "E"
    [] c = "r" -> "R" [] c = "j" -> "J" [] OTHER -> c
upper(s) == [i \in 1..Len(s) |-> UpperChar(s[i])]

\* s[a:b] with 0 <= a <= b (Python slice, clipped to the string)
Slice(s, a, b) ==
  LET hi == IF b > Len(s) THEN Len(s) ELSE b
  IN IF a >= hi THEN <<>> ELSE SubSeq(s, a + 1, hi)

\* _digits(s)
IsDigitChar(c) == c \in DigitChars
_digits(s) == SelectSeq(Or(s, <<>>), IsDigitChar)

\* ---------------------------------------------------------------- Decimal
RECURSIVE Pow10(_)
Pow10(n) == IF n = 0 THEN 1 ELSE 10 * Pow10(n - 1)
Scale == Pow10(FracDigits)

DigitVal(c) ==
  CASE c = "0" -> 0 [] c = "1" -> 1 [] c = "2" -> 2 [] c = "3" -> 3 [] c = "4" -> 4
    [] c = "5" -> 5 [] c = "6" -> 6 [] c = "7" -> 7 [] c = "8" -> 8 [] c = "9" -> 9

AllAscii(s) == \A i \in 1..Len(s) : s[i] \in AsciiDigits

RECURSIVE NatOf(_)
NatOf(s) == IF s = <<>> THEN 0 ELSE 10 * NatOf(SubSeq(s, 1, Len(s) - 1)) + DigitVal(s[Len(s)])

\* position of the first "." of s, or 0
DotPos(s) ==
  IF \E i \in 1..Len(s) : s[i] = "."
  THEN CHOOSE i \in 1..Len(s) : s[i] = "." /\ \A j \in 1..(i - 1) : s[j] # "."
  ELSE 0

\* Decimal(s) for the numerals [sign] digits [. digits]; ok is FALSE where
\* the constructor raises InvalidOperation.
Decimal(str) ==
  LET s == strip(str)
      neg == s # <<>> /\ Head(s) = "-"
      body == IF s # <<>> /\ Head(s) \in {"-", "+"} THEN Tail(s) ELSE s
      d == DotPos(body)
      ip == IF d = 0 THEN body ELSE SubSeq(body, 1, d - 1)
      fp == IF d = 0 THEN <<>> ELSE SubSeq(body, d + 1, Len(body))
      mag == NatOf(ip) * Scale + NatOf(fp) * Pow10(FracDigits - Len(fp))
  IN IF AllAscii(ip) /\ AllAscii(fp) /\ Len(ip) + Len(fp) > 0 /\ Len(fp) <= FracDigits
     THEN [ok |-> TRUE, v |-> IF neg THEN 0 - mag ELSE mag]
     ELSE [ok |-> FALSE, v |-> 0]

\* _dec(value)
_dec(value) ==
  IF ~Truthy(value) THEN 0
  ELSE IF Decimal(value).ok THEN Decimal(value).v ELSE 0

\* f"{v:.2f}": round half even to two fraction digits, sign kept
Fmt2(v) ==
  LET u == Pow10(FracDigits - 2)
      a == IF v < 0 THEN 0 - v ELSE v
      q == a \div u
      r == a % u
      c == IF 2 * r > u THEN q + 1
           ELSE IF 2 * r = u THEN q + (q % 2)
           ELSE q
  IN [neg |-> v < 0, cents |-> c]

\* _require(cond, msg)
_require(cond) == cond

\* _mun5(cmun)
_mun5(cmun) ==
  IF ~Truthy(cmun) THEN None
  ELSE LET s == _digits(cmun)
       IN IF Len(s) = MunIbgeLen THEN Slice(s, 2, 7)
          ELSE IF Len(s) = MunLen THEN s
          ELSE IF Len(s) > MunLen THEN SubSeq(s, Len(s) - MunLen + 1, Len(s))
          ELSE None

\* ------------------------------------------------------------------ dates
\* digits of s[a..b] read as a number, -1 when one of them is no ASCII digit
NumAt(s, a, b) == IF AllAscii(SubSeq(s, a, b)) THEN NatOf(SubSeq(s, a, b)) ELSE 0 - 1

IsLeap(y) == (y % 4 = 0 /\ y % 100 # 0) \/ y % 400 = 0
DaysIn(y, m) ==
  IF m = 2 THEN (IF IsLeap(y) THEN 29 ELSE 28)
  ELSE IF m \in {4, 6, 9, 11} THEN 30 ELSE 31

\* s is YYYY-MM-DD naming a calendar date
IsIsoDate(s) ==
  /\ Len(s) = 10
  /\ s[5] = "-" /\ s[8] = "-"
  /\ NumAt(s, 1, 4) >= 1
  /\ NumAt(s, 6, 7) \in 1..12
  /\ NumAt(s, 9, 10) >= 1
  /\ NumAt(s, 9, 10) <= DaysIn(NumAt(s, 1, 4), NumAt(s, 6, 7))

\* s is Thh:mm:ss, optionally followed by Z (replaced by +00:00)
IsIsoTime(s) ==
  LET t == IF s # <<>> /\ s[Len(s)] = "Z" THEN SubSeq(s, 1, Len(s) - 1) ELSE s
  IN /\ Len(t) = 9
     /\ t[1] = "T" /\ t[4] = ":" /\ t[7] = ":"
     /\ NumAt(t, 2, 3) \in 0..23
     /\ NumAt(t, 5, 6) \in 0..59
     /\ NumAt(t, 8, 9) \in 0..59

\* _date_only(iso): datetime.fromisoformat on the forms YYYY-MM-DD and
\* YYYY-MM-DDThh:mm:ss[Z]; any other string is an exception, hence None
_date_only(iso) ==
  IF ~Truthy(iso) THEN None
  ELSE IF Len(iso) >= 10 /\ IsIsoDate(SubSeq(iso, 1, 10))
          /\ (Len(iso) = 10 \/ IsIsoTime(SubSeq(iso, 11, Len(iso))))
       THEN SubSeq(iso, 1, 10)
       ELSE None

\* datetime.now().date().isoformat() on day n of the clock: 2026-11-nn
DigitChar(n) ==
  CASE n = 0 -> "0" [] n = 1 -> "1" [] n = 2 -> "2" [] n = 3 -> "3" [] n = 4 -> "4"
    [] n = 5 -> "5" [] n = 6 -> "6" [] n = 7 -> "7" [] n = 8 -> "8" [] n = 9 -> "9"
Today(n) == <<"2", "0", "2", "6", "-", "1", "1", "-", DigitChar(n \div 10), DigitChar(n % 10)>>

\* ----------------------------------------------------- evaluate_gnre_need
R100102 == <<"1", "0", "0", "1", "0", "2">>
R100099 == <<"1", "0", "0", "0", "9", "9">>
R100048 == <<"1", "0", "0", "0", "4", "8">>
UF_SP == <<"S", "P">>
UF_ES == <<"E", "S">>

\* receita is a 6-digit numeric string: r.isdigit() and len(r) == 6
ValidReceita(r) == Truthy(r) /\ isdigit(r) /\ Len(r) = ReceitaLen

\* EvalReceita with the two inferred codes exchanged
EvalReceita_swapped(dados_nfe, receita) ==
  LET r == Or(receita, <<>>)
  IN IF ~(isdigit(r) /\ Len(r) = ReceitaLen)
     THEN IF _dec(dados_nfe.valor_vICMSUFDest) > 0 THEN R100099
          ELSE IF _dec(dados_nfe.valor_vST) > 0 THEN R100102
          ELSE r
     ELSE r

\* lines 55-60: the hint, or the code inferred from the amounts
EvalReceita(dados_nfe, receita) ==
  LET r == Or(receita, <<>>)
  IN IF ~(isdigit(r) /\ Len(r) = ReceitaLen)
     THEN IF _dec(dados_nfe.valor_vICMSUFDest) > 0 THEN R100102
          ELSE IF _dec(dados_nfe.valor_vST) > 0 THEN R100099
          ELSE r
     ELSE r

\* lines 61-69: principal by override or by revenue code
EvalPrincipal(dados_nfe, r, valor_principal) ==
  LET vST_nfe == _dec(dados_nfe.valor_vST)
      vICMSUF_nfe == _dec(dados_nfe.valor_vICMSUFDest)
  IN IF valor_principal # None THEN _dec(valor_principal)
     ELSE IF r = R100102 THEN vICMSUF_nfe
     ELSE IF r \in {R100099, R100048} THEN vST_nfe
     ELSE vST_nfe + vICMSUF_nfe

\* line 70
EvalFcpTotal(dados_nfe) == _dec(dados_nfe.valor_vFCPUFDest) + _dec(dados_nfe.valor_vFCPST)

\* Manual without the test that the issuer state is non-empty
Manual_noEmit(dados_nfe, v_total_item) ==
  LET uf_dest == upper(strip(Or(dados_nfe.uf_destinatario, <<>>)))
      uf_emit == upper(strip(Or(dados_nfe.uf_emitente, <<>>)))
  IN uf_dest \in {UF_SP, UF_ES} /\ uf_emit # uf_dest /\ v_total_item > 0

\* line 72
Manual(dados_nfe, v_total_item) ==
  LET uf_dest == upper(strip(Or(dados_nfe.uf_destinatario, <<>>)))
      uf_emit == upper(strip(Or(dados_nfe.uf_emitente, <<>>)))
  IN uf_dest \in {UF_SP, UF_ES} /\ uf_emit # <<>> /\ uf_emit # uf_dest /\ v_total_item > 0

evaluate_gnre_need(dados_nfe, receita, valor_principal) ==
  LET r == EvalReceita(dados_nfe, receita)
      vprincipal == EvalPrincipal(dados_nfe, r, valor_principal)
      vFCP_total == EvalFcpTotal(dados_nfe)
      v_total_item == vprincipal + vFCP_total
      manual == Manual(dados_nfe, v_total_item)
  IN [receita |-> IF manual THEN None ELSE (IF r # <<>> THEN r ELSE None),
      valor_principal |-> Fmt2(vprincipal),
      valor_fcp |-> Fmt2(vFCP_total),
      valor_total_item |-> Fmt2(v_total_item),
      necessario |-> IF manual THEN "M" ELSE (IF v_total_item > 0 THEN "S" ELSE "N")]

\* --------------------------------------------------------- build_lote_xml
\* ET.SubElement(parent, tag).text = text, when cond
ElemIf(cond, tag, text) == IF cond THEN <<[tag |-> tag, text |-> text]>> ELSE <<>>

\* lines 96-107: the revenue argument, or the code inferred from the amounts;
\* None when neither is available (_require(False, ...))
LoteReceita(dados_nfe, receita) ==
  IF ~ValidReceita(receita)
  THEN IF _dec(dados_nfe.valor_vICMSUFDest) > 0 THEN R100102
       ELSE IF _dec(dados_nfe.valor_vST) > 0 THEN R100099
       ELSE None
  ELSE receita

\* DueDate preferring the current date
DueDate_today(dados_nfe, data_vencimento, now) ==
  Or(Today(now), Or(data_vencimento, _date_only(dados_nfe.data_emissao)))

\* line 133: data_vencimento or _date_only(data_emissao) or now().date()
DueDate(dados_nfe, data_vencimento, now) ==
  Or(data_vencimento, Or(_date_only(dados_nfe.data_emissao), Today(now)))

\* LotePrincipal without the branch of code 100048
LotePrincipal_no48(dados_nfe, receita, valor_principal) ==
  LET vST_nfe == _dec(dados_nfe.valor_vST)
      vICMSUF_nfe == _dec(dados_nfe.valor_vICMSUFDest)
      total_default == vST_nfe + vICMSUF_nfe
  IN IF valor_principal # None THEN _dec(valor_principal)
     ELSE IF receita = R100102 THEN vICMSUF_nfe
     ELSE IF receita = R100099 THEN vST_nfe
     ELSE total_default

\* lines 116-128: principal by override or by revenue code
LotePrincipal(dados_nfe, receita, valor_principal) ==
  LET vST_nfe == _dec(dados_nfe.valor_vST)
      vICMSUF_nfe == _dec(dados_nfe.valor_vICMSUFDest)
      total_default == vST_nfe + vICMSUF_nfe
  IN IF valor_principal # None THEN _dec(valor_principal)
     ELSE IF receita = R100102 THEN vICMSUF_nfe
     ELSE IF receita = R100099 THEN vST_nfe
     ELSE IF receita = R100048 THEN vST_nfe
     ELSE total_default

\* lines 114-115, 131
LoteFcpTotal(dados_nfe) ==
  LET vFCPUF_nfe == _dec(dados_nfe.valor_vFCPUFDest)
      vFCPST_nfe == _dec(dados_nfe.valor_vFCPST)
  IN vFCPUF_nfe + vFCPST_nfe

\* PrincipalOk refusing a zero principal
PrincipalOk_positive(vprincipal) == vprincipal > 0

\* line 132
PrincipalOk(vprincipal) == vprincipal >= 0

\* ChaveOk without the upper bound on the length
ChaveOk_noMax(chave) == Truthy(chave) /\ isdigit(chave) /\ 1 <= Len(chave)

\* line 112
ChaveOk(chave) == Truthy(chave) /\ isdigit(chave) /\ 1 <= Len(chave) /\ Len(chave) <= ChaveMaxLen

\* lines 148-181
ContribuinteEmitente(dados_nfe, uf, razao_social_emitente) ==
  [identificacao |->
     (IF Truthy(dados_nfe.emitente_cnpj) THEN <<[tag |-> "CNPJ", text |-> dados_nfe.emitente_cnpj]>>
      ELSE ElemIf(Truthy(dados_nfe.emitente_cpf), "CPF", dados_nfe.emitente_cpf))
     \o ElemIf(Truthy(dados_nfe.emitente_ie) /\ dados_nfe.uf_emitente = uf, "IE", dados_nfe.emitente_ie),
   children |->
     (IF Truthy(razao_social_emitente) THEN <<[tag |-> "razaoSocial", text |-> razao_social_emitente]>>
      ELSE ElemIf(Truthy(dados_nfe.emitente_nome), "razaoSocial", dados_nfe.emitente_nome))
     \o ElemIf(Truthy(dados_nfe.emitente_endereco), "endereco", dados_nfe.emitente_endereco)
     \o ElemIf(Truthy(dados_nfe.emitente_cod_mun), "municipio", _mun5(dados_nfe.emitente_cod_mun))
     \o ElemIf(Truthy(dados_nfe.uf_emitente), "uf", dados_nfe.uf_emitente)
     \o ElemIf(Truthy(dados_nfe.emitente_cep), "cep", dados_nfe.emitente_cep)
     \o ElemIf(Truthy(dados_nfe.emitente_telefone), "telefone", dados_nfe.emitente_telefone)]

\* lines 218-232
ContribuinteDestinatario(dados_nfe) ==
  IF Truthy(dados_nfe.destinatario_cnpj) \/ Truthy(dados_nfe.destinatario_cpf)
  THEN <<[identificacao |->
            (IF Truthy(dados_nfe.destinatario_cnpj)
             THEN <<[tag |-> "CNPJ", text |-> dados_nfe.destinatario_cnpj]>>
             ELSE ElemIf(Truthy(dados_nfe.destinatario_cpf), "CPF", dados_nfe.destinatario_cpf)),
          children |->
            ElemIf(Truthy(dados_nfe.destinatario_nome), "razaoSocial", dados_nfe.destinatario_nome)
            \o ElemIf(Truthy(dados_nfe.destinatario_cod_mun), "municipio",
                      _mun5(dados_nfe.destinatario_cod_mun))]>>
  ELSE <<>>

\* Valores emitting the FCP entry also for a zero FCP total
Valores_fcpZero(vprincipal, vFCP_total) ==
  <<[tipo |-> "11", text |-> Fmt2(vprincipal)],
    [tipo |-> "21", text |-> Fmt2(vprincipal + vFCP_total)]>>
  \o (IF vFCP_total >= 0 THEN <<[tipo |-> "27", text |-> Fmt2(vFCP_total)]>> ELSE <<>>)

\* lines 209-216: the valor entries of the item
Valores(vprincipal, vFCP_total) ==
  <<[tipo |-> "11", text |-> Fmt2(vprincipal)],
    [tipo |-> "21", text |-> Fmt2(vprincipal + vFCP_total)]>>
  \o (IF vFCP_total > 0 THEN <<[tipo |-> "27", text |-> Fmt2(vFCP_total)]>> ELSE <<>>)

\* lines 239-245
CamposExtras(incluir_campo_107, chave) ==
  IF incluir_campo_107 /\ Truthy(chave) /\ Len(_digits(chave)) = ChaveMaxLen
  THEN <<[codigo |-> "107", valor |-> _digits(chave)]>>
  ELSE <<>>

\* lines 137-248: the tree that is serialized
LoteTree(dados_nfe, p, uf, receita, chave, vprincipal, vFCP_total, dtven) ==
  [ufFavorecida |-> uf,
   tipoGnre |-> "0",
   contribuinteEmitente |-> ContribuinteEmitente(dados_nfe, uf, p.razao_social_emitente),
   item |->
     [receita |-> receita,
      opcionais |-> ElemIf(Truthy(p.detalhamento_receita), "detalhamentoReceita", p.detalhamento_receita)
                    \o ElemIf(Truthy(p.produto), "produto", p.produto),
      documentoOrigem |-> [tipo |-> strip(Or(p.doc_origem_tipo, <<"1", "0">>)),
                           text |-> _digits(Or(dados_nfe.numero_nf, chave))],
      referencia |-> [periodo |-> "0", mes |-> Slice(dtven, 5, 7), ano |-> Slice(dtven, 0, 4)],
      dataVencimento |-> dtven,
      valores |-> Valores(vprincipal, vFCP_total),
      contribuinteDestinatario |-> ContribuinteDestinatario(dados_nfe),
      camposExtras |-> CamposExtras(p.incluir_campo_107, chave)],
   valorGNRE |-> Fmt2(vprincipal + vFCP_total),
   dataPagamento |-> ElemIf(Truthy(p.data_pagamento), "dataPagamento", p.data_pagamento)]

Raise(msg) == [raised |-> "ValueError", msg |-> msg]

\* build_lote_xml(dados_nfe, uf_favorecida, receita, ...), p the record of
\* its other arguments, called on day now of the clock
build_lote_xml(dados_nfe, p, now) ==
  LET uf == strip(Or(p.uf_favorecida, Or(dados_nfe.uf_destinatario, <<>>)))
      receita == LoteReceita(dados_nfe, p.receita)
      ident_ok == Truthy(dados_nfe.emitente_cnpj) \/ Truthy(dados_nfe.emitente_cpf)
      chave == strip(Or(dados_nfe.chave_nfe, <<>>))
      vprincipal == LotePrincipal(dados_nfe, receita, p.valor_principal)
      vFCP_total == LoteFcpTotal(dados_nfe)
      dtven == DueDate(dados_nfe, p.data_vencimento, now)
  IN IF ~_require(Truthy(uf)) THEN Raise("ufFavorecida")
     ELSE IF ~_require(receita # None) THEN Raise("receita dedutivel")
     ELSE IF ~_require(ValidReceita(receita)) THEN Raise("receita")
     ELSE IF ~_require(ident_ok) THEN Raise("emitente")
     ELSE IF ~_require(ChaveOk(chave)) THEN Raise("documentoOrigem")
     ELSE IF ~_require(PrincipalOk(vprincipal)) THEN Raise("valor principal")
     ELSE [raised |-> "", xml |-> LoteTree(dados_nfe, p, uf, receita, chave, vprincipal, vFCP_total, dtven)]

\* ------------------------------------------------- strings drawn as inputs
A_0 == <<"0">>
A_0_005 == <<"0", ".", "0", "0", "5">>
A_0_015 == <<"0", ".", "0", "1", "5">>
A_1_50 == <<"1", ".", "5", "0">>
A_100 == <<"1", "0", "0", ".", "0", "0">>
A_neg2 == <<"-", "2", ".", "0", "0">>
A_bad == <<"a", "b", "c">>
R_123 == <<"1", "2", "3">>
R_12345A == <<"1", "2", "3", "4", "5", "A">>
R_12345sup2 == <<"1", "2", "3", "4", "5", "sup2">>
R999999 == <<"9", "9", "9", "9", "9", "9">>
UF_RJ == <<"R", "J">>
UF_sp_pad == <<" ", "s", "p">>
UF_es == <<"e", "s">>
Blank == <<" ">>
Doc1 == <<"1">>
Doc1_pad == <<"1", " ">>
Doc1A == <<"1", "A">>
DocSup2 == <<"1", "sup2">>
Mun_123 == <<"1", "2", "3">>
Mun_12345 == <<"1", "2", "3", "4", "5">>
Mun_3550308 == <<"3", "5", "5", "0", "3", "0", "8">>
Mun_123456 == <<"1", "2", "3", "4", "5", "6">>
Mun_35_50308 == <<"3", "5", ".", "5", "0", "3", "0", "8">>
Mun_12345678 == <<"1", "2", "3", "4", "5", "6", "7", "8">>
Date_2024_05_10 == <<"2", "0", "2", "4", "-", "0", "5", "-", "1", "0">>
Iso_2024_03_15 == <<"2", "0", "2", "4", "-", "0", "3", "-", "1", "5", "T", "1", "0", ":", "0", "0", ":", "0", "0", "Z">>
Iso_bad == <<"2", "0", "2", "4", "-", "0", "2", "-", "3", "0">>
Nome == <<"A">>

RECURSIVE Rep(_, _)
Rep(c, n) == IF n = 0 THEN <<>> ELSE <<c>> \o Rep(c, n - 1)
Chave44 == Rep("1", ChaveMaxLen)
Chave45 == Rep("1", ChaveMaxLen + 1)
Chave44_pad == Rep("1", ChaveMaxLen) \o Blank

\* an NF-e with a CNPJ issuer, a 44-digit key and no tax amounts
BaseNfe ==
  [uf_destinatario |-> UF_RJ, uf_emitente |-> UF_SP,
   valor_vST |-> None, valor_vICMSUFDest |-> None,
   valor_vFCPUFDest |-> None, valor_vFCPST |-> None,
   emitente_cnpj |-> Doc1, emitente_cpf |-> None, emitente_ie |-> Doc1,
   emitente_nome |-> Nome, emitente_endereco |-> None, emitente_cod_mun |-> Mun_3550308,
   emitente_cep |-> None, emitente_telefone |-> None,
   chave_nfe |-> Chave44, numero_nf |-> None, data_emissao |-> Iso_2024_03_15,
   destinatario_cnpj |-> None, destinatario_cpf |-> None, destinatario_nome |-> None,
   destinatario_cod_mun |-> None]

\* the arguments of the two entry points other than the invoice
BaseArgs ==
  [uf_favorecida |-> UF_RJ, receita |-> None, detalhamento_receita |-> None, produto |-> None,
   doc_origem_tipo |-> None, incluir_campo_107 |-> TRUE, valor_principal |-> None,
   data_vencimento |-> None, razao_social_emitente |-> None, data_pagamento |-> None]

\* ---------------------------------------------------------- state machine
VARIABLES
  dados_nfe,      \* the invoice passed to every call
  args,           \* the other arguments passed to every call
  now,            \* the day datetime.now() falls on
  namespace_map,  \* ElementTree's registered default namespace
  retEval,        \* what the latest evaluate_gnre_need call returned
  retLote,        \* what the latest build_lote_xml call returned or raised
  retMun          \* what the latest _mun5(emitente_cod_mun) call returned

vars == <<dados_nfe, args, now, namespace_map, retEval, retLote, retMun>>

NotCalled == [raised |-> "NotCalled"]
GNRE_NS == "http://www.gnre.pe.gov.br"

InitRest ==
  /\ now = 1
  /\ namespace_map = ""
  /\ retEval = NotCalled
  /\ retLote = NotCalled
  /\ retMun = NotCalled

\* inputs of the evaluator: amounts, hint, override and the two states
InitEval ==
  /\ dados_nfe \in
       {[BaseNfe EXCEPT !.valor_vST = st, !.valor_vICMSUFDest = ic, !.valor_vFCPUFDest = fu,
                        !.valor_vFCPST = fs, !.uf_destinatario = ud, !.uf_emitente = ue] :
          st \in {None, A_0_005, A_1_50},
          ic \in {None, A_1_50, A_neg2},
          fu \in {None, A_0_015, A_neg2},
          fs \in {None, A_1_50},
          ud \in {None, UF_SP, UF_es, UF_RJ},
          ue \in {None, Blank, UF_sp_pad, UF_RJ}}
  /\ args \in
       {[BaseArgs EXCEPT !.receita = r, !.valor_principal = vp] :
          r \in {None, R_123, R_12345sup2, R100102, R100048, R999999},
          vp \in {None, A_1_50}}
  /\ InitRest

\* inputs of the builder's validation: states, code, issuer ids and key
InitValid ==
  /\ dados_nfe \in
       {[BaseNfe EXCEPT !.uf_destinatario = ud, !.valor_vST = st, !.valor_vICMSUFDest = ic,
                        !.emitente_cnpj = cj, !.emitente_cpf = cf, !.chave_nfe = ch] :
          ud \in {None, UF_RJ},
          st \in {None, A_1_50},
          ic \in {None, A_1_50},
          cj \in {None, Doc1},
          cf \in {None, Doc1},
          ch \in {None, <<>>, Blank, Doc1, Doc1_pad, Doc1A, DocSup2, Chave44, Chave45, Chave44_pad}}
  /\ args \in
       {[BaseArgs EXCEPT !.uf_favorecida = uf, !.receita = r, !.valor_principal = vp] :
          uf \in {None, Blank, UF_SP},
          r \in {None, R_123, R_12345A, R100048, R999999},
          vp \in {None, A_neg2}}
  /\ InitRest

\* inputs of the builder's value derivation: amounts, code and override
InitValues ==
  /\ dados_nfe \in
       {[BaseNfe EXCEPT !.valor_vST = st, !.valor_vICMSUFDest = ic, !.valor_vFCPUFDest = fu,
                        !.valor_vFCPST = fs] :
          st \in {None, A_0_005, A_1_50, A_neg2},
          ic \in {None, A_0_015, A_100},
          fu \in {None, A_bad, A_0_005, A_neg2},
          fs \in {None, A_0, A_1_50}}
  /\ args \in
       {[BaseArgs EXCEPT !.receita = r, !.valor_principal = vp] :
          r \in {None, R100102, R100099, R100048, R999999},
          vp \in {None, <<>>, A_0_015, A_1_50, A_neg2}}
  /\ InitRest

\* inputs of the builder's document: dates, municipalities, recipient
InitDoc ==
  /\ dados_nfe \in
       {[BaseNfe EXCEPT !.data_emissao = de, !.emitente_cod_mun = em, !.destinatario_cnpj = dj,
                        !.destinatario_cod_mun = dm, !.chave_nfe = ch, !.valor_vST = A_1_50] :
          de \in {None, Iso_bad, Iso_2024_03_15},
          em \in {None, <<>>, Mun_123, Mun_12345, Mun_123456, Mun_3550308, Mun_12345678, Mun_35_50308},
          dj \in {None, Doc1},
          dm \in {None, Mun_123, Mun_3550308},
          ch \in {Doc1, Chave44}}
  /\ args \in
       {[BaseArgs EXCEPT !.data_vencimento = dv, !.uf_favorecida = uf, !.incluir_campo_107 = i7,
                         !.razao_social_emitente = rs] :
          dv \in {None, <<>>, Date_2024_05_10},
          uf \in {UF_SP, UF_RJ},
          i7 \in BOOLEAN,
          rs \in {None, Nome}}
  /\ InitRest

EvaluateGnreNeed ==
  /\ retEval' = evaluate_gnre_need(dados_nfe, args.receita, args.valor_principal)
  /\ UNCHANGED <<dados_nfe, args, now, namespace_map, retLote, retMun>>

\* build_lote_xml; the namespace is registered once validation has passed
BuildLoteXml ==
  /\ retLote' = build_lote_xml(dados_nfe, args, now)
  /\ namespace_map' = IF retLote'.raised = "" THEN GNRE_NS ELSE namespace_map
  /\ UNCHANGED <<dados_nfe, args, now, retEval, retMun>>

Mun5 ==
  /\ retMun' = [raised |-> "", cmun |-> _mun5(dados_nfe.emitente_cod_mun)]
  /\ UNCHANGED <<dados_nfe, args, now, namespace_map, retEval, retLote>>

\* a day passes
Tick ==
  /\ now < MaxDay
  /\ now' = now + 1
  /\ UNCHANGED <<dados_nfe, args, namespace_map, retEval, retLote, retMun>>

Next == EvaluateGnreNeed \/ BuildLoteXml \/ Mun5 \/ Tick

SpecEval == InitEval /\ [][Next]_vars
SpecValid == InitValid /\ [][Next]_vars
SpecValues == InitValues /\ [][Next]_vars
SpecDoc == InitDoc /\ [][Next]_vars

\* ================================================================= claims
\* what the claims read off a call
EvalCalled == retEval # NotCalled
LoteCalled == retLote # NotCalled
LoteOk == retLote.raised = ""
LoteRaised == retLote.raised = "ValueError"
\* a 6-digit numeric string
SixDigits(r) == r # None /\ Len(r) = ReceitaLen /\ \A i \in 1..Len(r) : r[i] \in DigitChars
HintValid == SixDigits(args.receita)
vST == _dec(dados_nfe.valor_vST)
vICMSUF == _dec(dados_nfe.valor_vICMSUFDest)
vFCP == _dec(dados_nfe.valor_vFCPUFDest) + _dec(dados_nfe.valor_vFCPST)
\* the two state codes as the evaluator compares them: trimmed, upper case
UfDest == upper(strip(Or(dados_nfe.uf_destinatario, <<>>)))
UfEmit == upper(strip(Or(dados_nfe.uf_emitente, <<>>)))

\* C1: evaluate_gnre_need, given no 6-digit numeric hint and no principal
\* override, returns principal = ICMS-destination amount and resolves
\* "100102" when that amount is > 0, and returns principal = ST amount and
\* resolves "100099" when it is 0 and the ST amount is > 0; a 6-digit
\* numeric hint is the resolved code; the resolved code is the one returned
\* whenever the status is not "M".  Amounts are compared as returned, with
\* two fraction digits.
C1_InferredCode ==
  EvalCalled =>
    /\ (~HintValid /\ args.valor_principal = None /\ vICMSUF > 0) =>
         /\ retEval.valor_principal = Fmt2(vICMSUF)
         /\ (retEval.necessario # "M" => retEval.receita = R100102)
    /\ (~HintValid /\ args.valor_principal = None /\ vICMSUF = 0 /\ vST > 0) =>
         /\ retEval.valor_principal = Fmt2(vST)
         /\ (retEval.necessario # "M" => retEval.receita = R100099)
    /\ (HintValid /\ retEval.necessario # "M") => retEval.receita = args.receita

C1_Witness ==
  /\ EvalCalled
  /\ ~HintValid /\ args.valor_principal = None /\ vICMSUF = 0 /\ vST > 0
  /\ retEval.receita = R100099

\* C2: evaluate_gnre_need returns status "M" and a null code exactly when
\* the destination state is SP or ES, the issuer state is non-empty and
\* differs from it, and total = principal + FCP total is > 0, whatever the
\* hint; otherwise the status is "S" exactly when total > 0 and "N" exactly
\* when it is not.  States are compared trimmed and in upper case.
C2_Total ==
  EvalPrincipal(dados_nfe, EvalReceita(dados_nfe, args.receita), args.valor_principal) + vFCP
C2_ManualCase ==
  UfDest \in {UF_SP, UF_ES} /\ UfEmit # <<>> /\ UfEmit # UfDest /\ C2_Total > 0
C2_Status ==
  EvalCalled =>
    /\ (retEval.necessario = "M" /\ retEval.receita = None) <=> C2_ManualCase
    /\ ~C2_ManualCase =>
         /\ retEval.necessario = "S" <=> C2_Total > 0
         /\ retEval.necessario = "N" <=> ~(C2_Total > 0)

C2_Witness ==
  /\ EvalCalled /\ HintValid /\ C2_ManualCase
  /\ retEval.necessario = "M" /\ retEval.receita = None

\* C7: the code evaluate_gnre_need returns is null or a string of exactly 6
\* digits, and it is null when the hint is not a 6-digit numeric string and
\* neither the ICMS-destination nor the ST amount is > 0.
C7_CodeShape ==
  EvalCalled =>
    /\ retEval.receita = None \/ SixDigits(retEval.receita)
    /\ (~HintValid /\ ~(vICMSUF > 0) /\ ~(vST > 0)) => retEval.receita = None

\* the preconditions of build_lote_xml as the claims word them
NoFavoredState == ~Truthy(args.uf_favorecida) /\ ~Truthy(dados_nfe.uf_destinatario)
NoCode == ~HintValid /\ ~(vICMSUF > 0) /\ ~(vST > 0)
NoIssuerId == ~Truthy(dados_nfe.emitente_cnpj) /\ ~Truthy(dados_nfe.emitente_cpf)
BadKey(k) == k = <<>> \/ (\E i \in 1..Len(k) : k[i] \notin DigitChars) \/ Len(k) > ChaveMaxLen
RawKey == Or(dados_nfe.chave_nfe, <<>>)
NegativeOverride == args.valor_principal # None /\ _dec(args.valor_principal) < 0

\* C3 as stated: build_lote_xml raises a validation error whenever (a) the
\* favored-state argument and the destination state are both empty, (b) the
\* revenue argument is not a 6-digit numeric string and neither amount is
\* > 0, (c) there is no issuer CNPJ and no CPF, or (d) the invoice key is
\* empty, contains a non-digit character or is longer than 44 characters.
C3_AsStated ==
  LoteCalled =>
    ((NoFavoredState \/ NoCode \/ NoIssuerId \/ BadKey(RawKey)) => LoteRaised)

\* C3 amended: the same, with (d) read on the invoice key after its
\* surrounding whitespace is trimmed.
C3_Validation ==
  LoteCalled =>
    ((NoFavoredState \/ NoCode \/ NoIssuerId \/ BadKey(strip(RawKey))) => LoteRaised)

C3_Witness ==
  /\ LoteRaised
  /\ ~NoFavoredState /\ ~NoCode /\ ~NoIssuerId /\ ~NegativeOverride
  /\ Len(strip(RawKey)) > ChaveMaxLen

\* C4 as stated: with all four tax amounts zero, favored state "SP" and
\* revenue code "999999", build_lote_xml raises a validation error, also
\* for an invoice with an issuer tax id and a valid numeric key.
C4_Case ==
  /\ vST = 0 /\ vICMSUF = 0 /\ vFCP = 0
  /\ _dec(dados_nfe.valor_vFCPUFDest) = 0
  /\ args.uf_favorecida = UF_SP /\ args.receita = R999999
ValorEntries == retLote.xml.item.valores
CountTipo(t) == Cardinality({i \in DOMAIN ValorEntries : ValorEntries[i].tipo = t})
LoteTotal ==
  LotePrincipal(dados_nfe, LoteReceita(dados_nfe, args.receita), args.valor_principal) + vFCP

Negative(t) == t.neg /\ t.cents > 0
C8_NonNegative ==
  LoteOk =>
    /\ \A i \in DOMAIN ValorEntries : ~Negative(ValorEntries[i].text)
    /\ ~Negative(retLote.xml.valorGNRE)

DueDateGiven == Truthy(args.data_vencimento) \/ _date_only(dados_nfe.data_emissao) # None
Last5(d) == SubSeq(d, Len(d) - MunLen + 1, Len(d))
Mun5Expected(cmun) ==
  LET d == SelectSeq(Or(cmun, <<>>), IsDigitChar)
  IN IF Len(d) >= MunLen THEN Last5(d) ELSE None
MunicipioOk(children, cmun) ==
  \A i \in DOMAIN children :
    children[i].tag = "municipio" =>
      /\ Mun5Expected(cmun) # None
      /\ children[i].text = Mun5Expected(cmun)
C10_Municipio ==
  /\ retMun # NotCalled => retMun.cmun = Mun5Expected(dados_nfe.emitente_cod_mun)
  /\ LoteOk =>
       /\ MunicipioOk(retLote.xml.contribuinteEmitente.children, dados_nfe.emitente_cod_mun)
       /\ \A j \in DOMAIN retLote.xml.item.contribuinteDestinatario :
            MunicipioOk(retLote.xml.item.contribuinteDestinatario[j].children,
                        dados_nfe.destinatario_cod_mun)
====
